---- MODULE Spec2Model ----
(***************************************************************************)
(* Model of src/1.py: the per-source pipeline of main() (title extraction, *)
(* skip check, working directory, image extraction, thread-pool download   *)
(* with retry, JPG conversion, CBZ packaging, cleanup and statistics).     *)
(* Strings are sequences of one-character strings, so that formatting,     *)
(* replacing, splitting and sorting are computed as Python computes them.  *)
(***************************************************************************)
EXTENDS FiniteSets, Integers, Sequences, TLC

(***************************************************************************)
(* Bounds of the model.                                                    *)
(***************************************************************************)
MaxImages == 2
MaxRetry == 2
MaxWorkers == 2

(***************************************************************************)
(* Program constants.                                                      *)
(***************************************************************************)
SEQ_WIDTH == 3
TITLE_LIMIT == 100

(***************************************************************************)
(* Python string primitives.                                               *)
(***************************************************************************)
DigitChars == <<"0", "1", "2", "3", "4", "5", "6", "7", "8", "9">>

\* code points of the characters that occur in working-storage file names
CodePoint(c) ==
    CASE c = "." -> 46
      [] c = "0" -> 48 [] c = "1" -> 49 [] c = "2" -> 50 [] c = "3" -> 51
      [] c = "4" -> 52 [] c = "5" -> 53 [] c = "6" -> 54 [] c = "7" -> 55
      [] c = "8" -> 56 [] c = "9" -> 57
      [] c = "_" -> 95
      [] c = "e" -> 101 [] c = "g" -> 103 [] c = "j" -> 106 [] c = "m" -> 109
      [] c = "p" -> 112 [] c = "t" -> 116

RECURSIVE Str(_)
\* str(n) for n >= 0
Str(n) == IF n < 10 THEN <<DigitChars[n + 1]>>
          ELSE Str(n \div 10) \o <<DigitChars[(n % 10) + 1]>>

RECURSIVE ZeroFill(_, _)
ZeroFill(s, width) == IF Len(s) >= width THEN s ELSE ZeroFill(<<"0">> \o s, width)

\* f"{seq:03d}"
SeqStr(seq) == ZeroFill(Str(seq), SEQ_WIDTH)

StartsWith(s, prefix) ==
    /\ Len(s) >= Len(prefix)
    /\ SubSeq(s, 1, Len(prefix)) = prefix

EndsWith(s, suffix) ==
    /\ Len(s) >= Len(suffix)
    /\ SubSeq(s, Len(s) - Len(suffix) + 1, Len(s)) = suffix

RECURSIVE Replace(_, _, _)
\* s.replace(old, new): every non-overlapping occurrence, left to right
Replace(s, old, new) ==
    IF Len(s) < Len(old) THEN s
    ELSE IF StartsWith(s, old)
         THEN new \o Replace(SubSeq(s, Len(old) + 1, Len(s)), old, new)
         ELSE <<Head(s)>> \o Replace(Tail(s), old, new)

RECURSIVE Strip(_)
\* leading and trailing blanks removed
Strip(s) ==
    IF s = <<>> THEN s
    ELSE IF Head(s) = " " THEN Strip(Tail(s))
    ELSE IF s[Len(s)] = " " THEN Strip(SubSeq(s, 1, Len(s) - 1))
    ELSE s

RECURSIVE SplitLast(_, _)
\* s.split(c)[-1]
SplitLast(s, c) ==
    IF \E i \in 1..Len(s) : s[i] = c
    THEN SplitLast(Tail(s), c)
    ELSE s

RECURSIVE LexLess(_, _)
\* a < b for Python strings
LexLess(a, b) ==
    IF b = <<>> THEN FALSE
    ELSE IF a = <<>> THEN TRUE
    ELSE IF Head(a) = Head(b) THEN LexLess(Tail(a), Tail(b))
    ELSE CodePoint(Head(a)) < CodePoint(Head(b))

RECURSIVE Insert(_, _)
Insert(x, sorted) ==
    IF sorted = <<>> THEN <<x>>
    ELSE IF LexLess(x, Head(sorted)) THEN <<x>> \o sorted
    ELSE <<Head(sorted)>> \o Insert(x, Tail(sorted))

\* the files in the order they arrived, not sorted
Unsorted(files) == files

RECURSIVE Sorted(_)
\* sorted(jpg_files, key=basename): stable, ascending
Sorted(files) ==
    IF files = <<>> THEN <<>>
    ELSE Insert(files[Len(files)], Sorted(SubSeq(files, 1, Len(files) - 1)))

Range(s) == {s[i] : i \in 1..Len(s)}

(***************************************************************************)
(* Names and paths.                                                        *)
(***************************************************************************)
UNKNOWN_TITLE == <<"u", "n", "k", "n", "o", "w", "n", "_", "t", "i", "t", "l", "e">>
INVALID_CHARS == <<"/", "\\", ":", "*", "?", "\"", "<", ">", "|">>
ZIP_EXT == <<".", "z", "i", "p">>
CBZ_EXT == <<".", "c", "b", "z">>
JPG_EXT == <<".", "j", "p", "g">>
TEMP_FILE_PREFIX == <<"t", "e", "m", "p", "_">>

RECURSIVE ReplaceInvalid(_, _)
\* for c in invalid_chars: title = title.replace(c, '_')
ReplaceInvalid(title, chars) ==
    IF chars = <<>> THEN title
    ELSE ReplaceInvalid(Replace(title, <<Head(chars)>>, <<"_">>), Tail(chars))

\* a page is [n: number of distinct image references, has_title, title]
get_page_title(page) ==
    IF page.has_title
    THEN LET title == ReplaceInvalid(Strip(page.title), INVALID_CHARS)
         IN  SubSeq(title, 1, IF Len(title) < TITLE_LIMIT THEN Len(title) ELSE TITLE_LIMIT)
    ELSE UNKNOWN_TITLE

\* a failed call that still reports the title of the page
extract_keeps_title(page, ok) ==
    [image_urls |-> IF ok THEN page.n ELSE 0, title |-> get_page_title(page)]

\* the result of one call: the request either succeeds or raises
extract_image_urls(page, ok) ==
    IF ok THEN [image_urls |-> page.n, title |-> get_page_title(page)]
    ELSE [image_urls |-> 0, title |-> UNKNOWN_TITLE]

SafeTitle(title) == Replace(title, <<" ">>, <<"_">>)

\* cbz_path of main (the path the skip check tests)
SkipPath(title) == SafeTitle(title) \o CBZ_EXT

\* the archive written under its final name from the start
ZipPathFinal(title) == SafeTitle(title) \o CBZ_EXT

\* zip_path and cbz_path of create_cbz
ZipPath(title) == SafeTitle(title) \o ZIP_EXT
CbzPath(title) == Replace(ZipPath(title), ZIP_EXT, CBZ_EXT)

\* one raw file name for every job
TempNameShared(seq_str) == TEMP_FILE_PREFIX

\* basename of temp_path in download_image_with_retry
TempName(seq_str) == TEMP_FILE_PREFIX \o seq_str

\* one output name for every image
JpgNameShared(seq_str) == JPG_EXT

\* basename of jpg_path in convert_to_jpg
JpgName(seq_str) == seq_str \o JPG_EXT

\* seq_str recovered from a downloaded file in main
SeqStrOf(dl_file) == SplitLast(dl_file, "_")

(***************************************************************************)
(* Inputs: the pages behind the URLs, the URL list, the arguments.         *)
(***************************************************************************)
PageA == [n |-> MaxImages, has_title |-> TRUE, title |-> <<"a", " ", "?">>]
PageB == [n |-> 0, has_title |-> FALSE, title |-> <<>>]
PageC == [n |-> 1, has_title |-> TRUE, title |-> <<" ", ".", "z", "i", "p">>]
PageD == [n |-> 1, has_title |-> TRUE, title |-> <<"a", " ", "?">>]
Web == {PageA, PageB, PageC, PageD}

\* the list holds at most two URLs, all different: sources meet only through
\* the names of the archives in the current directory and through the counters
Sources == {1, 2}
UrlLists == {<<>>} \cup [{1} -> Web] \cup {l \in [Sources -> Web] : l[1] # l[2]}
Seqs == 1..MaxImages

VARIABLES
    args,             \* skip_existing, workers, retry
    urls,             \* the URL list read from the file (each URL named by its page)
    run,              \* "first" or "second" run of the program
    pc,               \* position of main
    idx,              \* loop index of main
    stats,            \* the statistics counters of main
    stats0,           \* their values when the current source began
    cwd,              \* files of the current directory: [path, entries, complete]
    cwd0,             \* the current directory when the current source began
    tempDirs,         \* working directories: idx -> [exists, files]
    outcome,          \* how each source of this run ended
    archived,         \* sources whose archive an earlier run wrote
    requests,         \* kinds of network request issued for the current source
    error_log,        \* kinds of error logged for the current source
    cbz_path,         \* main: path tested by the skip check
    image_urls,       \* main: number of extracted image references
    page_title,       \* main: title of the second extraction
    jobs,             \* seq -> [st, attempt]: the futures and their workers
    downloaded_files, \* main: results in completion order
    conv,             \* main: position of the conversion loop
    jpg_files         \* main: converted files

vars == <<args, urls, run, pc, idx, stats, stats0, cwd, cwd0, tempDirs, outcome, archived,
          requests, error_log, cbz_path, image_urls, page_title, jobs, downloaded_files, conv,
          jpg_files>>

locals == <<cbz_path, image_urls, page_title, jobs, downloaded_files, conv, jpg_files>>

ZeroStats == [successful_cbz |-> 0, failed_urls |-> 0, total_expected_images |-> 0,
              successful_images |-> 0, failed_images |-> 0]

NoJobs == [s \in Seqs |-> [st |-> "none", attempt |-> 0]]
NoDir == [exists |-> FALSE, files |-> {}]

Init ==
    /\ args \in [skip_existing : BOOLEAN, workers : 0..MaxWorkers, retry : 0..MaxRetry]
    /\ urls \in UrlLists
    /\ run = "first"
    /\ pc = "main"
    /\ idx = 1
    /\ stats = ZeroStats
    /\ stats0 = ZeroStats
    /\ cwd = {}
    /\ cwd0 = {}
    /\ tempDirs = [i \in Sources |-> NoDir]
    /\ outcome = [i \in Sources |-> "pending"]
    /\ archived = {}
    /\ requests = {}
    /\ error_log = {}
    /\ cbz_path = <<>>
    /\ image_urls = 0
    /\ page_title = <<>>
    /\ jobs = NoJobs
    /\ downloaded_files = <<>>
    /\ conv = 1
    /\ jpg_files = <<>>

(***************************************************************************)
(* File system helpers.                                                    *)
(***************************************************************************)
Exists(path) == \E f \in cwd : f.path = path

FileAt(fs, path) == CHOOSE f \in fs : f.path = path

RemoveFile(fs, path) == {f \in fs : f.path # path}

WriteFile(fs, path, entries, complete) ==
    RemoveFile(fs, path) \cup {[path |-> path, entries |-> entries, complete |-> complete]}

\* os.rename(src, dst): dst is replaced
Rename(fs, src, dst) ==
    LET f == FileAt(fs, src)
    IN  WriteFile(RemoveFile(fs, src), dst, f.entries, f.complete)

\* the directory is never removed
keep_temp_dir(dirs, i, rm_ok) == dirs

\* cleanup_temp_dir: rmtree either removes the directory or raises, and the
\* exception is logged and swallowed
cleanup_temp_dir(dirs, i, rm_ok) ==
    IF dirs[i].exists /\ rm_ok THEN [dirs EXCEPT ![i] = NoDir] ELSE dirs

\* what cleanup_temp_dir writes to the error log
cleanup_errors(dirs, i, rm_ok) ==
    IF dirs[i].exists /\ ~rm_ok THEN {"cleanup"} ELSE {}

\* the end of one iteration of main's loop
NextSource(how) ==
    /\ outcome' = [outcome EXCEPT ![idx] = how]
    /\ idx' = idx + 1
    /\ pc' = "loop"

Bump(field) == stats' = [stats EXCEPT ![field] = @ + 1]

(***************************************************************************)
(* main: reading the list, the loop head, the skip check.                  *)
(***************************************************************************)
\* lines 228-241
ReadUrls ==
    /\ pc = "main"
    /\ pc' = IF urls = <<>> THEN "exit" ELSE "loop"
    /\ UNCHANGED <<args, urls, run, idx, stats, stats0, cwd, cwd0, tempDirs, outcome,
                   archived, requests, error_log, locals>>

\* --skip-existing ignored: an existing archive is never skipped
SkipIgnored(path) == FALSE

\* line 254: the skip check
ShouldSkip(path) == args.skip_existing /\ Exists(path)

\* lines 243-256: first extraction (title only) and the skip check
ExtractTitle ==
    /\ pc = "loop"
    /\ idx <= Len(urls)
    /\ \E ok \in BOOLEAN :
         LET path == SkipPath(extract_image_urls(urls[idx], ok).title)
         IN  /\ cbz_path' = path
             /\ error_log' = IF ok THEN {} ELSE {"extract"}
             /\ IF ShouldSkip(path)
                THEN NextSource("skipped")
                ELSE /\ pc' = "makedirs"
                     /\ UNCHANGED <<idx, outcome>>
    /\ requests' = {"title_page"}
    /\ stats0' = stats
    /\ cwd0' = cwd
    /\ image_urls' = 0
    /\ page_title' = <<>>
    /\ jobs' = NoJobs
    /\ downloaded_files' = <<>>
    /\ conv' = 1
    /\ jpg_files' = <<>>
    /\ UNCHANGED <<args, urls, run, stats, cwd, tempDirs, archived>>

\* line 258: os.makedirs is outside the try block, so its exception leaves main
MakeDirs ==
    /\ pc = "makedirs"
    /\ \E ok \in BOOLEAN :
         IF ok
         THEN /\ tempDirs' = [tempDirs EXCEPT ![idx].exists = TRUE]
              /\ pc' = "extract"
         ELSE /\ pc' = "crashed"
              /\ UNCHANGED tempDirs
    /\ UNCHANGED <<args, urls, run, idx, stats, stats0, cwd, cwd0, outcome, archived,
                   requests, error_log, locals>>

\* lines 261-268: second extraction; an empty result ends the source
ExtractImages ==
    /\ pc = "extract"
    /\ \E ok \in BOOLEAN :
         LET res == extract_image_urls(urls[idx], ok)
         IN  /\ image_urls' = res.image_urls
             /\ page_title' = res.title
             /\ stats' = [stats EXCEPT !.total_expected_images = @ + res.image_urls]
             /\ IF res.image_urls = 0
                THEN /\ \E rm_ok \in BOOLEAN :
                          /\ tempDirs' = cleanup_temp_dir(tempDirs, idx, rm_ok)
                          /\ error_log' = error_log \cup cleanup_errors(tempDirs, idx, rm_ok)
                                             \cup (IF ok THEN {} ELSE {"extract"})
                     /\ NextSource("empty")
                ELSE /\ pc' = "pool"
                     /\ UNCHANGED <<tempDirs, idx, outcome, error_log>>
    /\ requests' = requests \cup {"images_page"}
    /\ UNCHANGED <<args, urls, run, stats0, cwd, cwd0, archived, cbz_path, jobs,
                   downloaded_files, conv, jpg_files>>

\* lines 319-323: the handler of main's try block
HandleException ==
    /\ Bump("failed_urls")
    /\ \E rm_ok \in BOOLEAN :
         /\ tempDirs' = cleanup_temp_dir(tempDirs, idx, rm_ok)
         /\ error_log' = error_log \cup {"fatal"} \cup cleanup_errors(tempDirs, idx, rm_ok)
    /\ NextSource("fatal")

\* line 272: ThreadPoolExecutor(max_workers) raises ValueError unless max_workers > 0
CreatePool ==
    /\ pc = "pool"
    /\ IF args.workers <= 0
       THEN HandleException
       ELSE /\ pc' = "submit"
            /\ UNCHANGED <<stats, tempDirs, idx, outcome, error_log>>
    /\ UNCHANGED <<args, urls, run, stats0, cwd, cwd0, archived, requests, locals>>

(***************************************************************************)
(* The thread pool and download_image_with_retry.                          *)
(***************************************************************************)
Running == {s \in Seqs : jobs[s].st = "running"}

\* one attempt too many
OneMoreAttempt(attempt, retry_times) == attempt <= retry_times

\* the for loop of download_image_with_retry: range(1, retry_times + 1)
MoreAttempts(attempt, retry_times) == attempt < retry_times

\* lines 274-280: one executor.submit per image reference, in extraction order
Submit ==
    /\ pc = "submit"
    /\ \E s \in 1..image_urls :
         /\ jobs[s].st = "none"
         /\ \A t \in 1..(s - 1) : jobs[t].st # "none"
         /\ jobs' = [jobs EXCEPT ![s].st = "queued"]
         /\ pc' = IF s = image_urls THEN "collect" ELSE "submit"
    /\ UNCHANGED <<args, urls, run, idx, stats, stats0, cwd, cwd0, tempDirs, outcome,
                   archived, requests, error_log, cbz_path, image_urls, page_title,
                   downloaded_files, conv, jpg_files>>

\* a pool that starts a job whenever one is queued
UnboundedPool == TRUE

\* line 272: the pool runs at most max_workers jobs at a time
HasFreeWorker == Cardinality(Running) < args.workers

\* a free worker of the pool takes the oldest queued job (lines 124-125)
StartJob(s) ==
    /\ jobs[s].st = "queued"
    /\ \A t \in 1..(s - 1) : jobs[t].st # "queued"
    /\ HasFreeWorker
    /\ jobs' = [jobs EXCEPT ![s].st = "running"]
    /\ UNCHANGED <<args, urls, run, pc, idx, stats, stats0, cwd, cwd0, tempDirs, outcome,
                   archived, requests, error_log, cbz_path, image_urls, page_title,
                   downloaded_files, conv, jpg_files>>

\* lines 127-149: one attempt. It succeeds (the file is written and temp_path
\* returned), fails before the file is opened, or fails while writing it.
Attempt(s) ==
    /\ jobs[s].st = "running"
    /\ MoreAttempts(jobs[s].attempt, args.retry)
    /\ \E result \in {"ok", "error", "partial"} :
         /\ jobs' = [jobs EXCEPT ![s] = [st |-> IF result = "ok" THEN "ok" ELSE "running",
                                         attempt |-> @.attempt + 1]]
         /\ tempDirs' = IF result = "error" THEN tempDirs
                        ELSE [tempDirs EXCEPT ![idx].files = @ \cup {TempName(SeqStr(s))}]
         /\ error_log' = IF result # "ok" /\ ~MoreAttempts(jobs[s].attempt + 1, args.retry)
                         THEN error_log \cup {"download"} ELSE error_log
    /\ requests' = requests \cup {"image"}
    /\ UNCHANGED <<args, urls, run, pc, idx, stats, stats0, cwd, cwd0, outcome, archived,
                   cbz_path, image_urls, page_title, downloaded_files, conv, jpg_files>>

\* the loop is exhausted and the partial file is left behind
ExhaustKeepingPartial(s) ==
    /\ jobs[s].st = "running"
    /\ ~MoreAttempts(jobs[s].attempt, args.retry)
    /\ jobs' = [jobs EXCEPT ![s].st = "failed"]
    /\ UNCHANGED <<args, urls, run, pc, idx, stats, stats0, cwd, cwd0, tempDirs, outcome,
                   archived, requests, error_log, cbz_path, image_urls, page_title,
                   downloaded_files, conv, jpg_files>>

\* lines 151-153: the loop is exhausted; a partial file is removed, None returned
Exhaust(s) ==
    /\ jobs[s].st = "running"
    /\ ~MoreAttempts(jobs[s].attempt, args.retry)
    /\ jobs' = [jobs EXCEPT ![s].st = "failed"]
    /\ tempDirs' = [tempDirs EXCEPT ![idx].files = @ \ {TempName(SeqStr(s))}]
    /\ UNCHANGED <<args, urls, run, pc, idx, stats, stats0, cwd, cwd0, outcome, archived,
                   requests, error_log, cbz_path, image_urls, page_title,
                   downloaded_files, conv, jpg_files>>

\* lines 282-293: as_completed yields the finished futures in completion order
Collect(s) ==
    /\ pc = "collect"
    /\ jobs[s].st \in {"ok", "failed"}
    /\ jobs' = [jobs EXCEPT ![s] = [st |-> IF @.st = "ok" THEN "joined_ok" ELSE "joined_failed",
                                    attempt |-> 0]]
    /\ IF jobs[s].st = "ok"
       THEN /\ Bump("successful_images")
            /\ downloaded_files' = Append(downloaded_files, TempName(SeqStr(s)))
       ELSE /\ Bump("failed_images")
            /\ UNCHANGED downloaded_files
    /\ pc' = IF \A t \in (1..image_urls) \ {s} : jobs[t].st \in {"joined_ok", "joined_failed"}
             THEN "convert" ELSE "collect"
    /\ UNCHANGED <<args, urls, run, idx, stats0, cwd, cwd0, tempDirs, outcome, archived,
                   requests, error_log, cbz_path, image_urls, page_title, conv, jpg_files>>

(***************************************************************************)
(* Conversion (convert_to_jpg) and packaging (create_cbz).                 *)
(***************************************************************************)
\* lines 299-303 and 156-180: the raw file is removed on both paths
Convert ==
    /\ pc = "convert"
    /\ conv <= Len(downloaded_files)
    /\ LET dl_file == downloaded_files[conv]
           jpg == JpgName(SeqStrOf(dl_file))
       IN  \E ok \in BOOLEAN :
             IF ok
             THEN /\ tempDirs' = [tempDirs EXCEPT
                                    ![idx].files = (@ \ {dl_file}) \cup {jpg}]
                  /\ jpg_files' = Append(jpg_files, jpg)
                  /\ UNCHANGED error_log
             ELSE /\ tempDirs' = [tempDirs EXCEPT ![idx].files = @ \ {dl_file}]
                  /\ error_log' = error_log \cup {"convert"}
                  /\ UNCHANGED jpg_files
    /\ conv' = conv + 1
    /\ UNCHANGED <<args, urls, run, pc, idx, stats, stats0, cwd, cwd0, outcome, archived,
                   requests, cbz_path, image_urls, page_title, jobs, downloaded_files>>

\* packaging only when every image reference was converted
AllConverted(files) == Len(files) = image_urls

\* line 306: if jpg_files
CanPackage(files) == files # <<>>

\* lines 306 and 315-317: when nothing was converted the source has failed and
\* its directory is kept
StartPackaging ==
    /\ pc = "convert"
    /\ conv > Len(downloaded_files)
    /\ IF CanPackage(jpg_files)
       THEN /\ pc' = "cbz_open"
            /\ UNCHANGED <<stats, idx, outcome>>
       ELSE /\ Bump("failed_urls")
            /\ NextSource("failed")
    /\ UNCHANGED <<args, urls, run, stats0, cwd, cwd0, tempDirs, archived, requests,
                   error_log, locals>>

\* a packaging failure that also removes the working directory
PackagingFailedCleaning ==
    /\ cwd' = RemoveFile(cwd, ZipPath(page_title))
    /\ error_log' = error_log \cup {"package"}
    /\ tempDirs' = [tempDirs EXCEPT ![idx] = NoDir]
    /\ Bump("failed_urls")
    /\ NextSource("failed")

\* lines 202-207 and 312-314: create_cbz removes the intermediate file and
\* returns None; main counts the source as failed and keeps the directory
PackagingFailed ==
    /\ cwd' = RemoveFile(cwd, ZipPath(page_title))
    /\ error_log' = error_log \cup {"package"}
    /\ UNCHANGED tempDirs
    /\ Bump("failed_urls")
    /\ NextSource("failed")

\* line 193: zipfile.ZipFile(zip_path, 'w')
CbzOpen ==
    /\ pc = "cbz_open"
    /\ \E ok \in BOOLEAN :
         IF ok
         THEN /\ cwd' = WriteFile(cwd, ZipPath(page_title), <<>>, FALSE)
              /\ pc' = "cbz_write"
              /\ UNCHANGED <<stats, idx, outcome, error_log, tempDirs>>
         ELSE PackagingFailed
    /\ UNCHANGED <<args, urls, run, stats0, cwd0, archived, requests, locals>>

\* lines 195-196: the entries are written in sorted order, then the file is closed
CbzWrite ==
    /\ pc = "cbz_write"
    /\ LET zip == FileAt(cwd, ZipPath(page_title))
           order == Sorted(jpg_files)
           k == Len(zip.entries) + 1
       IN  \E ok \in BOOLEAN :
             IF ok
             THEN /\ cwd' = IF k <= Len(order)
                            THEN WriteFile(cwd, zip.path, Append(zip.entries, order[k]), FALSE)
                            ELSE WriteFile(cwd, zip.path, zip.entries, TRUE)
                  /\ pc' = IF k <= Len(order) THEN "cbz_write" ELSE "cbz_rename"
                  /\ UNCHANGED <<stats, idx, outcome, error_log, tempDirs>>
             ELSE PackagingFailed
    /\ UNCHANGED <<args, urls, run, stats0, cwd0, archived, requests, locals>>

\* lines 198-200: os.rename(zip_path, cbz_path)
CbzRename ==
    /\ pc = "cbz_rename"
    /\ \E ok \in BOOLEAN :
         IF ok
         THEN /\ cwd' = Rename(cwd, ZipPath(page_title), CbzPath(page_title))
              /\ pc' = "archived"
              /\ UNCHANGED <<stats, idx, outcome, error_log, tempDirs>>
         ELSE PackagingFailed
    /\ UNCHANGED <<args, urls, run, stats0, cwd0, archived, requests, locals>>

\* lines 308-311: the archive is counted and the working directory removed
Archived ==
    /\ pc = "archived"
    /\ Bump("successful_cbz")
    /\ \E rm_ok \in BOOLEAN :
         /\ tempDirs' = cleanup_temp_dir(tempDirs, idx, rm_ok)
         /\ error_log' = error_log \cup cleanup_errors(tempDirs, idx, rm_ok)
    /\ NextSource("done")
    /\ UNCHANGED <<args, urls, run, stats0, cwd, cwd0, archived, requests, locals>>

\* lines 325-331: the final statistics
Summary ==
    /\ pc = "loop"
    /\ idx > Len(urls)
    /\ pc' = "summary"
    /\ UNCHANGED <<args, urls, run, idx, stats, stats0, cwd, cwd0, tempDirs, outcome,
                   archived, requests, error_log, locals>>

\* the program is started again on the same list, with the same arguments
Rerun ==
    /\ pc = "summary"
    /\ run = "first"
    /\ run' = "second"
    /\ archived' = archived \cup {i \in Sources : outcome[i] = "done"}
    /\ pc' = "main"
    /\ idx' = 1
    /\ stats' = ZeroStats
    /\ stats0' = ZeroStats
    /\ outcome' = [i \in Sources |-> "pending"]
    /\ requests' = {}
    /\ error_log' = {}
    /\ cwd0' = cwd
    /\ cbz_path' = <<>>
    /\ image_urls' = 0
    /\ page_title' = <<>>
    /\ jobs' = NoJobs
    /\ downloaded_files' = <<>>
    /\ conv' = 1
    /\ jpg_files' = <<>>
    /\ UNCHANGED <<args, urls, cwd, tempDirs>>

Next ==
    \/ ReadUrls
    \/ ExtractTitle
    \/ MakeDirs
    \/ ExtractImages
    \/ CreatePool
    \/ Submit
    \/ \E s \in Seqs : StartJob(s)
    \/ \E s \in Seqs : Attempt(s)
    \/ \E s \in Seqs : Exhaust(s)
    \/ \E s \in Seqs : Collect(s)
    \/ Convert
    \/ StartPackaging
    \/ CbzOpen
    \/ CbzWrite
    \/ CbzRename
    \/ Archived
    \/ Summary

Spec == Init /\ [][Next]_vars

\* two runs over one source with --skip-existing
InitRerun ==
    /\ Init
    /\ args.skip_existing
    /\ Len(urls) = 1

NextRerun == Next \/ Rerun

SpecRerun == InitRerun /\ [][NextRerun]_vars

\* one source, and the program does not stop while main or a worker of the
\* pool can take a step
InitSingle ==
    /\ Init
    /\ Len(urls) = 1

FairSpec == InitSingle /\ [][Next]_vars /\ WF_vars(Next)

\* create_cbz alone, on a source of which two images were converted; the
\* sequence numbers lie on both sides of every change of the key's length
KeySeqs == {1, 9, 10, 99, 100, 999, 1000, 1001}

InitKeys ==
    /\ args = [skip_existing |-> FALSE, workers |-> 1, retry |-> 1]
    /\ run = "first"
    /\ pc = "cbz_open"
    /\ idx = 1
    /\ stats0 = ZeroStats
    /\ cwd = {}
    /\ cwd0 = {}
    /\ outcome = [i \in Sources |-> "pending"]
    /\ archived = {}
    /\ requests = {"title_page", "images_page", "image"}
    /\ error_log = {"download"}
    /\ cbz_path = SkipPath(get_page_title(PageA))
    /\ page_title = get_page_title(PageA)
    /\ jobs = NoJobs
    /\ conv = 3
    /\ \E a, b \in KeySeqs :
         /\ a < b
         /\ urls = <<[PageA EXCEPT !.n = b]>>
         /\ image_urls = b
         /\ stats = [ZeroStats EXCEPT !.total_expected_images = b,
                                      !.successful_images = 2,
                                      !.failed_images = b - 2]
         /\ downloaded_files \in {<<TempName(SeqStr(a)), TempName(SeqStr(b))>>,
                                  <<TempName(SeqStr(b)), TempName(SeqStr(a))>>}
         /\ jpg_files = [k \in 1..2 |-> JpgName(SeqStrOf(downloaded_files[k]))]
         /\ tempDirs = [i \in Sources |->
                          IF i = 1 THEN [exists |-> TRUE, files |-> Range(jpg_files)]
                          ELSE NoDir]

NextKeys ==
    \/ CbzOpen
    \/ CbzWrite
    \/ CbzRename
    \/ Archived

SpecKeys == InitKeys /\ [][NextKeys]_vars

(***************************************************************************)
(* Properties.                                                             *)
(***************************************************************************)
\* a source has just ended: its locals are still those of its processing
SourceEnded == pc \in {"loop", "summary"} /\ idx > 1
Last == idx - 1

Joined(s) == jobs[s].st \in {"joined_ok", "joined_failed"}

RECURSIVE InOrder(_, _, _)
\* the names of the sequence numbers s..n that are present, in ascending order
InOrder(s, n, present) ==
    IF s > n THEN <<>>
    ELSE (IF JpgName(SeqStr(s)) \in present THEN <<JpgName(SeqStr(s))>> ELSE <<>>)
         \o InOrder(s + 1, n, present)

ArchiveWritten(n) ==
    \E f \in cwd : f.path = CbzPath(page_title) /\ f.complete /\ Len(f.entries) = n

OneDownloadFailed ==
    /\ SourceEnded
    /\ image_urls >= 1
    /\ \A s \in 1..image_urls : Joined(s)
    /\ Cardinality({s \in 1..image_urls : jobs[s].st = "joined_failed"}) = 1
    /\ Len(jpg_files) = Len(downloaded_files)

IsolationHolds ==
    /\ outcome[Last] = "done"
    /\ ArchiveWritten(image_urls - 1)
    /\ stats.failed_images = stats0.failed_images + 1

\* C2 as stated: one failed download of N still gives an archive of N-1 entries
\* and raises failed_images by one.
C2_Original == OneDownloadFailed => IsolationHolds

\* C2 as amended: the same for N >= 2, when packaging itself does not fail.
C2_IsolatedFailure ==
    (OneDownloadFailed /\ image_urls >= 2 /\ "package" \notin error_log) => IsolationHolds

\* C2 witness: an archive written after one download exhausted its retries
C2_OneOfSeveralFailed ==
    /\ OneDownloadFailed
    /\ image_urls >= 2
    /\ args.retry >= 1
    /\ outcome[Last] = "done"

\* C3: a job that returned failure made exactly args.retry attempts; a job that
\* succeeded made between 1 and args.retry attempts and stopped at its first
\* success; no job ever makes more than args.retry attempts.
C3_AttemptsExact ==
    \A s \in Seqs :
        /\ jobs[s].st = "failed" => jobs[s].attempt = args.retry
        /\ jobs[s].st = "ok" => jobs[s].attempt \in 1..args.retry
        /\ jobs[s].attempt <= args.retry

\* C3 witness: a job failed after the largest number of attempts, another one
\* succeeded on a retry
C3_RetriesExhausted ==
    /\ args.retry = MaxRetry
    /\ \E s \in Seqs : jobs[s].st = "failed" /\ jobs[s].attempt = MaxRetry
    /\ \E s \in Seqs : jobs[s].st = "ok" /\ jobs[s].attempt >= 2

\* C4 as stated: a source whose extraction yields no image reference raises
\* failed_urls by exactly one.
C4_EmptyCountsAsFailed ==
    (SourceEnded /\ outcome[Last] = "empty") =>
        stats.failed_urls = stats0.failed_urls + 1

EmptyDidNothing ==
    /\ cwd = cwd0
    /\ jobs = NoJobs
    /\ "image" \notin requests

\* C5 as stated: such a source writes no archive, starts no download and leaves
\* no working directory.
C5_Original ==
    (SourceEnded /\ outcome[Last] = "empty") =>
        (EmptyDidNothing /\ ~tempDirs[Last].exists)

\* C5 as amended: the working directory is gone unless its removal failed, and
\* then the failure is in the error log.
C5_EmptyCleanup ==
    (SourceEnded /\ outcome[Last] = "empty") =>
        (EmptyDidNothing /\ (tempDirs[Last].exists => "cleanup" \in error_log))

\* C5 witness: a page without images ended with its directory removed
C5_EmptyPageCleaned ==
    /\ SourceEnded
    /\ outcome[Last] = "empty"
    /\ "extract" \notin error_log
    /\ ~tempDirs[Last].exists

\* the second run has ended a source that the first run archived
SecondRunEnded ==
    /\ run = "second"
    /\ SourceEnded
    /\ Last \in archived

\* C6 as stated: the second run with --skip-existing issues no network request
\* for the source and writes nothing.
C6_Original == SecondRunEnded => (requests = {} /\ cwd = cwd0)

\* C6 as amended: the second run always requests the page for its title; when
\* the path main derives from it existed, that is the only request, no
\* download is started and nothing is written.
C6_SkipAfterTitleRequest ==
    SecondRunEnded =>
        /\ "title_page" \in requests
        /\ (\E f \in cwd0 : f.path = cbz_path) =>
               /\ outcome[Last] = "skipped"
               /\ requests = {"title_page"}
               /\ cwd = cwd0
               /\ jobs = NoJobs

\* C6 witness: the second run skipped the source archived by the first
C6_SkippedInSecondRun == SecondRunEnded /\ outcome[Last] = "skipped"

\* C7 as stated: no exception leaves main, and a source ended by an exception
\* is counted once, logged and followed by the next source.
C7_ExceptionsContained ==
    /\ pc # "crashed"
    /\ (SourceEnded /\ outcome[Last] = "fatal") =>
           (stats.failed_urls = stats0.failed_urls + 1 /\ "fatal" \in error_log)

\* C8 as stated: with a non-empty list the run only stops at the final summary,
\* every source having reached an outcome, in list order.
C8_RunCompletes ==
    urls # <<>> =>
        /\ pc = "summary" \/ ENABLED Next
        /\ \A i \in 1..Len(urls) : (outcome[i] # "pending") <=> (i < idx)
        /\ pc = "summary" => idx = Len(urls) + 1

\* C9: an incomplete file exists only while create_cbz writes it, under the
\* intermediate name, never under a name ending in .cbz; every other file is a
\* complete archive; after a packaging failure the directory is as before and
\* the source has failed; after the rename the archive holds every converted
\* file.
C9_AtomicPackaging ==
    /\ \A f \in cwd :
           ~f.complete => /\ pc = "cbz_write"
                          /\ f.path = ZipPath(page_title)
                          /\ ~EndsWith(f.path, CBZ_EXT)
    /\ \A f \in cwd :
           (pc \notin {"cbz_write", "cbz_rename"} \/ f.path # ZipPath(page_title)) =>
               (f.complete /\ EndsWith(f.path, CBZ_EXT))
    /\ (SourceEnded /\ "package" \in error_log) =>
           (outcome[Last] = "failed" /\ cwd = cwd0)
    /\ pc = "archived" =>
           \E f \in cwd : /\ f.path = CbzPath(page_title)
                          /\ f.complete
                          /\ Range(f.entries) = Range(jpg_files)

\* C9 witness: a half-written intermediate file beside a finished archive
C9_HalfWritten ==
    /\ pc = "cbz_write"
    /\ \E f \in cwd : ~f.complete /\ Len(f.entries) >= 1 /\ Len(f.entries) < Len(jpg_files)
    /\ \E f \in cwd : f.complete

FailedKeepsDirectory ==
    (SourceEnded /\ outcome[Last] = "failed") =>
        (tempDirs[Last].exists /\ stats.failed_urls = stats0.failed_urls + 1)

\* C10 as stated: Done leaves no working directory; Failed (packaging failed or
\* nothing converted) keeps it and raises failed_urls by one.
C10_Original ==
    /\ (SourceEnded /\ outcome[Last] = "done") =>
           (ArchiveWritten(Len(jpg_files)) /\ ~tempDirs[Last].exists)
    /\ FailedKeepsDirectory

\* C10 as amended: after Done the directory is gone unless its removal failed,
\* which is then in the error log.
C10_DirectoryAsymmetry ==
    /\ (SourceEnded /\ outcome[Last] = "done") =>
           /\ ArchiveWritten(Len(jpg_files))
           /\ tempDirs[Last].exists => "cleanup" \in error_log
    /\ FailedKeepsDirectory

\* C10 witness: packaging failed and the converted files are still there
C10_FailedRetained ==
    /\ SourceEnded
    /\ outcome[Last] = "failed"
    /\ "package" \in error_log
    /\ tempDirs[Last].files # {}

\* C11 as stated: at the end of a run that began with an empty directory there
\* are as many archive files as sources counted in successful_cbz, so no
\* source's archive was replaced by a later one.
C11_OneArchivePerSource ==
    (run = "first" /\ pc = "summary") => Cardinality(cwd) = stats.successful_cbz

\* C12: never more than args.workers jobs are running, also when there are
\* more image references than workers, and every queued job is eventually
\* started.
C12_BoundedParallelism ==
    /\ [](Cardinality(Running) <= args.workers)
    /\ \A s \in Seqs : (jobs[s].st = "queued") ~> (jobs[s].st = "running")

\* C12 witness: every worker is busy and a job waits in the queue
C12_QueueWaits ==
    /\ image_urls > args.workers
    /\ Cardinality(Running) = args.workers
    /\ \E s \in Seqs : jobs[s].st = "queued"

\* a step of the worker that runs job s
WorkerStep(s) == jobs[s].st \in {"queued", "running"} /\ jobs'[s] # jobs[s]

\* a step of main that joins the finished job s
JoinStep(s) ==
    /\ pc = "collect"
    /\ jobs[s].st \in {"ok", "failed"}
    /\ Joined(s)'
    /\ \A t \in Seqs \ {s} : jobs'[t] = jobs[t]

\* C13: a worker's step changes neither the statistics nor downloaded_files
\* and touches only the raw file of its own sequence number; while the pool
\* is open these two change only in a step of main that joins one finished
\* job; the raw files of different jobs have different names.
C13_CollectThenMutate ==
    [][/\ \A s \in Seqs :
             WorkerStep(s) =>
                 /\ stats' = stats
                 /\ downloaded_files' = downloaded_files
                 /\ \A f \in (tempDirs'[idx].files \ tempDirs[idx].files)
                         \cup (tempDirs[idx].files \ tempDirs'[idx].files) :
                        /\ f = TempName(SeqStr(s))
                        /\ \A t \in (1..image_urls) \ {s} : f # TempName(SeqStr(t))
       /\ (pc \in {"submit", "collect"}
             /\ (stats' # stats \/ downloaded_files' # downloaded_files)) =>
              \E s \in Seqs : JoinStep(s)
      ]_vars

\* C13 witness: two workers have each written their own raw file
C13_TwoWorkersWriting ==
    /\ Cardinality(Running) >= 2
    /\ \A s \in Running : TempName(SeqStr(s)) \in tempDirs[idx].files

\* the source that just ended went through its conversion loop
ConversionsEnded ==
    /\ SourceEnded
    /\ image_urls >= 1
    /\ \A s \in 1..image_urls : Joined(s)

\* C14 as stated: the failed-image count of a source is its failed downloads
\* plus the downloaded images that failed to convert.
C14_ConversionFailuresCounted ==
    ConversionsEnded =>
        stats.failed_images - stats0.failed_images =
            Cardinality({s \in 1..image_urls : jobs[s].st = "joined_failed"})
            + (Len(downloaded_files) - Len(jpg_files))

\* C15 as stated: once an extraction call of a source has failed, no download
\* is started and no archive is written for that source.
C15_Original ==
    "extract" \in error_log =>
        (jobs = NoJobs /\ "image" \notin requests /\ cwd = cwd0)

\* C15 as amended: a failed call raises nothing and yields the placeholder
\* title and no reference; when it is the second call (line 261), whose
\* references main uses, the source ends as one without images: no download,
\* no archive, and main is at the next source.
C15_ExtractionFailureDegrades ==
    /\ (pc = "makedirs" /\ "extract" \in error_log) => cbz_path = SkipPath(UNKNOWN_TITLE)
    /\ ("images_page" \in requests /\ image_urls = 0) =>
           /\ SourceEnded
           /\ outcome[Last] = "empty"
           /\ EmptyDidNothing
           /\ urls[Last].n > 0 => ("extract" \in error_log /\ page_title = UNKNOWN_TITLE)

\* C15 witness: the request for a page with images failed and another source
\* is still to come
C15_FailedThenNext ==
    /\ SourceEnded
    /\ outcome[Last] = "empty"
    /\ urls[Last].n > 0
    /\ urls[Last].has_title
    /\ idx <= Len(urls)

DownloadedOk == {s \in 1..image_urls : jobs[s].st = "joined_ok"}

\* C16: every downloaded file is handed to the conversion loop exactly once,
\* whatever happened to the others, and the archive holds exactly one entry
\* for every image that was downloaded and converted, and nothing else.
C16_ArchiveContent ==
    /\ pc \in {"convert", "cbz_open", "cbz_write", "cbz_rename", "archived"} =>
           /\ Len(downloaded_files) = Cardinality(DownloadedOk)
           /\ Range(downloaded_files) = {TempName(SeqStr(s)) : s \in DownloadedOk}
           /\ conv <= Len(downloaded_files) + 1
           /\ \A k \in conv..Len(downloaded_files) :
                  downloaded_files[k] \in tempDirs[idx].files
           /\ Len(jpg_files) = Cardinality(Range(jpg_files))
           /\ Range(jpg_files) \subseteq tempDirs[idx].files
    /\ pc = "archived" =>
           LET zip == FileAt(cwd, CbzPath(page_title))
           IN  /\ conv = Len(downloaded_files) + 1
               /\ zip.complete
               /\ Len(zip.entries) = Cardinality(Range(zip.entries))
               /\ Range(zip.entries) = tempDirs[idx].files
               /\ Range(zip.entries) \subseteq {JpgName(SeqStr(s)) : s \in DownloadedOk}

\* C16 witness: two images were downloaded, one conversion failed, and the
\* archive of the other one is written
C16_SiblingConversionFailed ==
    /\ pc = "archived"
    /\ Len(downloaded_files) = 2
    /\ Len(jpg_files) = 1

\* C17: for sequence numbers a < b the key of a sorts before the key of b, so
\* the archive lists the image of a before the image of b.
C17_KeyOrderIsNumeric ==
    \A a, b \in KeySeqs :
        (/\ a < b
         /\ pc = "archived"
         /\ Range(jpg_files) = {JpgName(SeqStr(a)), JpgName(SeqStr(b))})
        => /\ LexLess(SeqStr(a), SeqStr(b))
           /\ FileAt(cwd, CbzPath(page_title)).entries =
                  <<JpgName(SeqStr(a)), JpgName(SeqStr(b))>>

RawFiles(i) == {f \in tempDirs[i].files : StartsWith(f, TEMP_FILE_PREFIX)}

\* C18: a job that exhausted its attempts has left no file, a file handed to
\* convert_to_jpg is gone when the call returns, and once the conversion loop
\* of a source has ended its working directory holds no raw file.
C18_NoOrphanedRawFiles ==
    /\ pc \in {"submit", "collect", "convert"} =>
           /\ \A s \in Seqs : jobs[s].st \in {"failed", "joined_failed"} =>
                  TempName(SeqStr(s)) \notin tempDirs[idx].files
           /\ \A k \in 1..(conv - 1) : downloaded_files[k] \notin tempDirs[idx].files
    /\ pc \in {"cbz_open", "cbz_write", "cbz_rename", "archived"} => RawFiles(idx) = {}
    /\ (SourceEnded /\ outcome[Last] \in {"failed", "done"}) => RawFiles(Last) = {}

\* C18 witness: a download was given up, a conversion failed, and the
\* directory of the failed source is still there
C18_FailuresLeftNothing ==
    /\ SourceEnded
    /\ outcome[Last] = "failed"
    /\ {"download", "convert"} \subseteq error_log
    /\ tempDirs[Last].exists

ImagesBalanced ==
    stats.total_expected_images = stats.successful_images + stats.failed_images

\* C19: after every source whose downloads were all collected, and when the
\* statistics are printed, expected = downloaded + failed; every job was
\* joined once and counted in one of the two; a skipped source changes none of
\* the three counters.
C19_ImageAccounting ==
    /\ pc = "summary" => ImagesBalanced
    /\ (SourceEnded /\ outcome[Last] \in {"failed", "done"}) =>
           /\ ImagesBalanced
           /\ \A s \in 1..image_urls : Joined(s)
           /\ stats.successful_images - stats0.successful_images =
                  Cardinality({s \in 1..image_urls : jobs[s].st = "joined_ok"})
           /\ stats.failed_images - stats0.failed_images =
                  Cardinality({s \in 1..image_urls : jobs[s].st = "joined_failed"})
    /\ (SourceEnded /\ outcome[Last] = "skipped") =>
           /\ stats.total_expected_images = stats0.total_expected_images
           /\ stats.successful_images = stats0.successful_images
           /\ stats.failed_images = stats0.failed_images

\* C20: when both extractions of a source returned the title of its page, the
\* path the skip check tested is the path at which create_cbz has written the
\* archive, so that a later run with --skip-existing finds it.
C20_ArchiveNameConsistent ==
    (pc = "archived" /\ "extract" \notin error_log) =>
        /\ cbz_path = CbzPath(page_title)
        /\ Exists(cbz_path)
====
